---- MODULE Spec2Model ----
(***************************************************************************)
(* Model of the caddy "blocker" HTTP middleware (src/caddy_blocker.go):    *)
(* Provision/Validate, the status-capturing response writer, ServeHTTP and *)
(* the expirable LRU cache it keeps the per-client counters in.            *)
(*                                                                         *)
(* Strings are sequences of one-character strings, time is counted in      *)
(* seconds, and a duration is a number of seconds.                         *)
(*                                                                         *)
(* The cache is the package github.com/projectdiscovery/expirablelru,      *)
(* which the repository imports and does not contain: Get, Add and the     *)
(* purge are modelled after the store contract of the specification and    *)
(* the package's behaviour (an entry is expired once the clock is after    *)
(* its expiry time; a ttl <= 0 turns expiry off; a size <= 0 turns the     *)
(* size limit off).                                                        *)
(***************************************************************************)
EXTENDS Integers, Sequences, FiniteSets, TLC

\* ------------------------------------------------------------------ bounds
MaxProcs == 2
MaxRequests == 3
MaxTime == 2
MaxWriteHeaderCalls == 2
MaxLRURequests == 5

\* --------------------------------------------------------------- constants
StatusOK == 200
StatusUnauthorized == 401
StatusForbidden == 403
\* expirablelru's TTL for "never expires" (ten years), in seconds
NoEvictionTTL == 315360000

Nil == "nil"
Stdout == "os.Stdout"
TransportError == "transport error"

\* The errors of Provision: the field and the raw value they name.
ConfigError(field, value) == [field |-> field, value |-> value]

\* The nil error of Provision.
NoError == ConfigError(Nil, <<>>)

\* ------------------------------------------------------ strconv, time, net
Digits == <<"0", "1", "2", "3", "4", "5", "6", "7", "8", "9">>

IsDigit(c) == \E i \in 1..10 : Digits[i] = c

DigitVal(c) == (CHOOSE i \in 1..10 : Digits[i] = c) - 1

RECURSIVE DecimalValue(_, _)
DecimalValue(s, acc) ==
  IF s = <<>> THEN acc ELSE DecimalValue(Tail(s), acc * 10 + DigitVal(Head(s)))

\* strconv.Atoi: an optional sign, then one or more decimal digits.
Atoi(s) ==
  LET signed == Len(s) > 0 /\ s[1] \in {"+", "-"}
      body == IF signed THEN Tail(s) ELSE s
  IN IF body = <<>> \/ \E i \in 1..Len(body) : ~IsDigit(body[i])
       THEN [ok |-> FALSE, val |-> 0]
       ELSE [ok |-> TRUE,
             val |-> IF signed /\ s[1] = "-"
                       THEN 0 - DecimalValue(body, 0)
                       ELSE DecimalValue(body, 0)]

\* The length of the longest prefix of s made of digits.
RECURSIVE LeadingDigits(_)
LeadingDigits(s) ==
  IF s # <<>> /\ IsDigit(Head(s)) THEN 1 + LeadingDigits(Tail(s)) ELSE 0

\* The length of the longest prefix of s holding no digit (a unit name).
RECURSIVE LeadingUnit(_)
LeadingUnit(s) ==
  IF s # <<>> /\ ~IsDigit(Head(s)) THEN 1 + LeadingUnit(Tail(s)) ELSE 0

\* time.ParseDuration's units, in seconds (the units of a second or more).
UnitSeconds(u) ==
  IF u = <<"s">> THEN 1
  ELSE IF u = <<"m">> THEN 60
  ELSE IF u = <<"h">> THEN 3600
  ELSE 0

\* The loop of time.ParseDuration: one or more <digits><unit> groups.
RECURSIVE DurationGroups(_, _)
DurationGroups(s, acc) ==
  IF s = <<>> THEN [ok |-> TRUE, val |-> acc]
  ELSE LET n == LeadingDigits(s)
           rest == SubSeq(s, n + 1, Len(s))
           u == LeadingUnit(rest)
           unit == SubSeq(rest, 1, u)
       IN IF n = 0 \/ u = 0 \/ UnitSeconds(unit) = 0
            THEN [ok |-> FALSE, val |-> 0]
            ELSE DurationGroups(SubSeq(rest, u + 1, Len(rest)),
                                acc + DecimalValue(SubSeq(s, 1, n), 0) * UnitSeconds(unit))

\* time.ParseDuration: [-+]?(<digits><unit>)+, or "0" alone.
ParseDuration(s) ==
  LET signed == Len(s) > 0 /\ s[1] \in {"+", "-"}
      body == IF signed THEN Tail(s) ELSE s
      d == DurationGroups(body, 0)
  IN IF body = <<"0">> THEN [ok |-> TRUE, val |-> 0]
     ELSE IF body = <<>> \/ ~d.ok THEN [ok |-> FALSE, val |-> 0]
     ELSE [ok |-> TRUE, val |-> IF signed /\ s[1] = "-" THEN 0 - d.val ELSE d.val]

\* The last position of ":" in s, or 0.
RECURSIVE LastColon(_)
LastColon(s) ==
  IF s = <<>> THEN 0
  ELSE IF s[Len(s)] = ":" THEN Len(s)
  ELSE LastColon(SubSeq(s, 1, Len(s) - 1))

\* net.SplitHostPort for addresses without brackets: host and port around
\* the last colon; on an error (no colon, or a colon in the host) both are
\* empty.
SplitHostPort(addr) ==
  LET i == LastColon(addr)
      host == SubSeq(addr, 1, i - 1)
  IN IF i = 0 \/ LastColon(host) # 0
       THEN [host |-> <<>>, port |-> <<>>, ok |-> FALSE]
       ELSE [host |-> host, port |-> SubSeq(addr, i + 1, Len(addr)), ok |-> TRUE]

\* ------------------------------------------------------------ expirablelru
\* A cache is [nil, size, ttl, purge, evictList]; evictList holds the
\* entries [key, value, expiresAt], most recently used first. NilCache is
\* the nil *Cache of a Middleware that was not provisioned.

\* NewExpirableLRU(size, nil, ttl, 0): a negative size means no size limit,
\* a ttl <= 0 means no expiry; the purging goroutine runs when both a ttl
\* and a size are set.
NilCache == [nil |-> TRUE, size |-> 0, ttl |-> 0, purge |-> FALSE, evictList |-> <<>>]

NewExpirableLRU(size, ttl) ==
  [nil |-> FALSE,
   size |-> IF size < 0 THEN 0 ELSE size,
   ttl |-> IF ttl <= 0 THEN NoEvictionTTL ELSE ttl,
   purge |-> ttl > 0 /\ size > 0,
   evictList |-> <<>>]

\* The position of key's entry in the list, or 0.
Find(list, key) ==
  IF \E i \in 1..Len(list) : list[i].key = key
    THEN CHOOSE i \in 1..Len(list) : list[i].key = key
    ELSE 0

Remove(list, i) == SubSeq(list, 1, i - 1) \o SubSeq(list, i + 1, Len(list))

MoveToFront(list, i) == <<list[i]>> \o Remove(list, i)

\* time.Now().After(expiresAt)
Expired(e, t) == t > e.expiresAt

\* Cache.Get at time t: a live entry is moved to the front and its value
\* returned; an expired or missing one gives (nil, false).
Get(c, key, t) ==
  LET i == Find(c.evictList, key)
  IN IF i = 0 \/ Expired(c.evictList[i], t)
       THEN [cache |-> c, value |-> 0, ok |-> FALSE]
       ELSE [cache |-> [c EXCEPT !.evictList = MoveToFront(@, i)],
             value |-> c.evictList[i].value,
             ok |-> TRUE]

\* Cache.Add at time t: an existing entry is overwritten, moved to the
\* front and given a new expiry; a new entry is pushed to the front and,
\* when the size is exceeded, the oldest entry is removed.
Add(c, key, value, t) ==
  LET i == Find(c.evictList, key)
      e == [key |-> key, value |-> value, expiresAt |-> t + c.ttl]
      pushed == <<e>> \o c.evictList
  IN IF i # 0
       THEN [c EXCEPT !.evictList = <<e>> \o Remove(@, i)]
       ELSE IF c.size > 0 /\ Len(pushed) > c.size
         THEN [c EXCEPT !.evictList = SubSeq(pushed, 1, Len(pushed) - 1)]
         ELSE [c EXCEPT !.evictList = pushed]

RECURSIVE LiveEntries(_, _)
LiveEntries(list, t) ==
  IF list = <<>> THEN <<>>
  ELSE IF Expired(Head(list), t) THEN LiveEntries(Tail(list), t)
  ELSE <<Head(list)>> \o LiveEntries(Tail(list), t)

\* Cache.deleteExpired at time t, run by the purging goroutine.
DeleteExpiredEntries(c, t) == [c EXCEPT !.evictList = LiveEntries(@, t)]

\* The stored entries of a cache, without their order.
Stored(c) ==
  {c.evictList[i] : i \in 1..Len(c.evictList)}

StoredKeys(c) == {e.key : e \in Stored(c)}

\* ---------------------------------------------------------------- inputs
\* The configurations the requests are served under:
\* <<block_duration, cache_size, max_unauth_times>>.
Configs ==
  { << <<"1", "s">>, <<"2">>, <<"1">> >>,
    << <<"1", "s">>, <<"1">>, <<"0">> >>,
    << <<"-", "1", "s">>, <<"-", "1">>, <<"0">> >>,
    << <<"0">>, <<"0">>, <<"-", "1">> >>,
    << <<"1", "s">>, <<"1">>, <<"x">> >> }

\* The strings Provision is tried on, field by field.
DurationInputs ==
  { <<"1", "s">>, <<"0">>, <<"-", "1", "s">>, <<"1">>, <<"1", "x">>, <<"s">>, <<>> }

SizeInputs == { <<"1">>, <<"0">>, <<"-", "1">>, <<"1", "s">>, <<"x">>, <<>> }

MaxInputs == { <<"1">>, <<"0">>, <<"-", "1">>, <<"-">>, <<"x">>, <<>> }

\* The remote addresses requests come from; the last one has no port.
RemoteAddrs == { <<"a", ":", "7">>, <<"b", ":", "7">>, <<"a">> }

ClientKeys == {SplitHostPort(a).host : a \in RemoteAddrs}

StatusCodes == {StatusOK, StatusUnauthorized, StatusForbidden}

Procs == 1..MaxProcs

\* ----------------------------------------------------------------- state
VARIABLES
  BlockDuration, CacheSize, MaxUnAuthTimes,  \* Middleware's configured strings
  blockDuration, maxUnAuthTimes, lruCache, w, \* Middleware's provisioned fields
  provisionErr, validateErr,                 \* what Provision and Validate returned
  phase,                                     \* new, provisioned, serving, failed
  req,                                       \* the ServeHTTP call of each goroutine
  sink,                                      \* what was written to m.w
  now,                                       \* the clock
  served,                                    \* ServeHTTP calls begun
  adds,                                      \* lruCache.Add calls made
  fails,                                     \* per key: failures counted by ServeHTTP
  clean,                                     \* per key: see Complete
  blockedAt,                                 \* per key: time of the last Add, or -1
  recency                                    \* the stored keys, last used first

config == <<BlockDuration, CacheSize, MaxUnAuthTimes>>
middleware == <<blockDuration, maxUnAuthTimes, w, provisionErr, validateErr, phase>>
history == <<served, adds, fails, clean, blockedAt, recency>>
vars == <<config, middleware, lruCache, req, sink, now, history>>

IdleReq ==
  [pc |-> "idle", RemoteAddr |-> <<>>, ip |-> <<>>, port |-> <<>>,
   unAuthTimes |-> 0, statusCode |-> 0, written |-> <<>>,
   nextCalled |-> FALSE, err |-> Nil, ret |-> Nil]

\* The line ServeHTTP prints: "!!!! <status>, <ip>, <port>".
Notification(r) == [statusCode |-> r.statusCode, ip |-> r.ip, port |-> r.port]

\* m.w.Write(line). The sink is never read: of what was written to it, the
\* number of writes and the last line are kept.
Write(out, line) == [n |-> out.n + 1, last |-> line]

\* The state before Provision, for a configuration among cfgs.
InitOf(cfgs) ==
  /\ \E c \in cfgs :
       /\ BlockDuration = c[1]
       /\ CacheSize = c[2]
       /\ MaxUnAuthTimes = c[3]
  /\ blockDuration = 0
  /\ maxUnAuthTimes = 0
  /\ lruCache = NilCache
  /\ w = Nil
  /\ provisionErr = NoError
  /\ validateErr = Nil
  /\ phase = "new"
  /\ req = [p \in Procs |-> IdleReq]
  /\ sink = [n |-> 0, last |-> Notification(IdleReq)]
  /\ now = 0
  /\ served = 0
  /\ adds = 0
  /\ fails = [k \in ClientKeys |-> 0]
  /\ clean = [k \in ClientKeys |-> TRUE]
  /\ blockedAt = [k \in ClientKeys |-> 0 - 1]
  /\ recency = <<>>

Init == InitOf(Configs)

\* ------------------------------------------------- Provision and Validate

\* ProvisionResult, giving the cache a ttl one second longer than
\* block_duration.
ProvisionResultLongerTTL(rawDuration, rawSize, rawMax) ==
  LET d == ParseDuration(rawDuration)
      n == Atoi(rawSize)
      mx == Atoi(rawMax)
      start == [blockDuration |-> d.val, lruCache |-> NilCache, maxUnAuthTimes |-> 0,
                w |-> Nil, err |-> NoError]
  IN IF ~d.ok
       THEN [start EXCEPT !.err = ConfigError("block_duration", rawDuration)]
     ELSE IF ~n.ok
       THEN [start EXCEPT !.err = ConfigError("cache_size", rawSize)]
     ELSE IF ~mx.ok
       THEN [start EXCEPT !.lruCache = NewExpirableLRU(n.val, d.val + 1),
                          !.err = ConfigError("max_unauth_times", rawMax)]
     ELSE [start EXCEPT !.lruCache = NewExpirableLRU(n.val, d.val + 1),
                        !.maxUnAuthTimes = mx.val,
                        !.w = Stdout]

\* ProvisionResult, taking an unparsable max_unauth_times for 0.
ProvisionResultIgnoringMax(rawDuration, rawSize, rawMax) ==
  LET d == ParseDuration(rawDuration)
      n == Atoi(rawSize)
      mx == Atoi(rawMax)
      start == [blockDuration |-> d.val, lruCache |-> NilCache, maxUnAuthTimes |-> 0,
                w |-> Nil, err |-> NoError]
  IN IF ~d.ok
       THEN [start EXCEPT !.err = ConfigError("block_duration", rawDuration)]
     ELSE IF ~n.ok
       THEN [start EXCEPT !.err = ConfigError("cache_size", rawSize)]
     ELSE [start EXCEPT !.lruCache = NewExpirableLRU(n.val, d.val),
                        !.maxUnAuthTimes = mx.val,
                        !.w = Stdout]

\* Middleware.Provision: the fields it leaves and the error it returns.
ProvisionResult(rawDuration, rawSize, rawMax) ==
  LET d == ParseDuration(rawDuration)
      n == Atoi(rawSize)
      mx == Atoi(rawMax)
      start == [blockDuration |-> d.val, lruCache |-> NilCache, maxUnAuthTimes |-> 0,
                w |-> Nil, err |-> NoError]
  IN IF ~d.ok
       THEN [start EXCEPT !.err = ConfigError("block_duration", rawDuration)]
     ELSE IF ~n.ok
       THEN [start EXCEPT !.err = ConfigError("cache_size", rawSize)]
     ELSE IF ~mx.ok
       THEN [start EXCEPT !.lruCache = NewExpirableLRU(n.val, d.val),
                          !.err = ConfigError("max_unauth_times", rawMax)]
     ELSE [start EXCEPT !.lruCache = NewExpirableLRU(n.val, d.val),
                        !.maxUnAuthTimes = mx.val,
                        !.w = Stdout]

Provision ==
  /\ phase = "new"
  /\ LET r == ProvisionResult(BlockDuration, CacheSize, MaxUnAuthTimes)
     IN /\ blockDuration' = r.blockDuration
        /\ lruCache' = r.lruCache
        /\ maxUnAuthTimes' = r.maxUnAuthTimes
        /\ w' = r.w
        /\ provisionErr' = r.err
  /\ phase' = "provisioned"
  /\ UNCHANGED <<config, validateErr, req, sink, now, history>>

\* Middleware.Validate's result for a writer.
ValidateResult(writer) == IF writer = Nil THEN "no writer" ELSE Nil

\* Validate, after which the server serves only if neither call failed.
Validate ==
  /\ phase = "provisioned"
  /\ validateErr' = ValidateResult(w)
  /\ phase' = IF provisionErr = NoError /\ ValidateResult(w) = Nil
                THEN "serving" ELSE "failed"
  /\ UNCHANGED <<config, blockDuration, maxUnAuthTimes, w, provisionErr,
                 lruCache, req, sink, now, history>>

\* ------------------------------------------------- loggingResponseWriter
\* NewLoggingResponseWriter(w): the wrapper's recorded status at creation.
NewLoggingResponseWriter == StatusOK

\* loggingResponseWriter.WriteHeader(code) on request r: the code is
\* recorded and passed on to the wrapped writer.
WriteHeader(r, code) ==
  [r EXCEPT !.statusCode = code, !.written = Append(@, code)]

\* --------------------------------------------------------------- ServeHTTP
AuthFailure == {StatusUnauthorized, StatusForbidden}

\* Blocked, rejecting at the threshold already.
BlockedAtThreshold(unAuthTimes, max) == unAuthTimes >= max

\* Blocked, rejecting one failure late.
BlockedOneLate(unAuthTimes, max) == unAuthTimes > max + 1

\* The test that rejects a request.
Blocked(unAuthTimes, max) == unAuthTimes > max

\* Admission, counting the rejected request as one more failure.
AdmissionCountingRejected(c, addr, max, t) ==
  LET hp == SplitHostPort(addr)
      g == Get(c, hp.host, t)
      unAuthTimes == IF g.ok THEN g.value ELSE 0
      r == [IdleReq EXCEPT !.RemoteAddr = addr, !.ip = hp.host, !.port = hp.port,
                           !.unAuthTimes = unAuthTimes]
  IN IF Blocked(unAuthTimes, max)
       THEN [cache |-> Add(g.cache, hp.host, unAuthTimes + 1, t),
             req |-> [r EXCEPT !.pc = "done", !.written = <<StatusUnauthorized>>,
                               !.ret = Nil]]
       ELSE [cache |-> g.cache, req |-> [r EXCEPT !.pc = "admitted"]]

\* Admission, reading the counter without making its entry the last used
\* (Peek for Get).
AdmissionPeeking(c, addr, max, t) ==
  LET hp == SplitHostPort(addr)
      g == Get(c, hp.host, t)
      unAuthTimes == IF g.ok THEN g.value ELSE 0
      r == [IdleReq EXCEPT !.RemoteAddr = addr, !.ip = hp.host, !.port = hp.port,
                           !.unAuthTimes = unAuthTimes]
  IN [cache |-> c,
      req |-> IF Blocked(unAuthTimes, max)
                THEN [r EXCEPT !.pc = "done", !.written = <<StatusUnauthorized>>,
                               !.ret = Nil]
                ELSE [r EXCEPT !.pc = "admitted"]]

\* Admission, going on to call next after the 401 of a rejection (the
\* return of line 100 left out).
AdmissionWithoutReturn(c, addr, max, t) ==
  LET hp == SplitHostPort(addr)
      g == Get(c, hp.host, t)
      unAuthTimes == IF g.ok THEN g.value ELSE 0
      r == [IdleReq EXCEPT !.RemoteAddr = addr, !.ip = hp.host, !.port = hp.port,
                           !.unAuthTimes = unAuthTimes]
  IN [cache |-> g.cache,
      req |-> IF Blocked(unAuthTimes, max)
                THEN [r EXCEPT !.pc = "admitted", !.written = <<StatusUnauthorized>>]
                ELSE [r EXCEPT !.pc = "admitted"]]

\* ServeHTTP up to its decision: the address is split, the counter read,
\* and the request is rejected with 401 or admitted. Gives the cache after
\* the read and the request's state.
Admission(c, addr, max, t) ==
  LET hp == SplitHostPort(addr)
      g == Get(c, hp.host, t)
      unAuthTimes == IF g.ok THEN g.value ELSE 0
      r == [IdleReq EXCEPT !.RemoteAddr = addr, !.ip = hp.host, !.port = hp.port,
                           !.unAuthTimes = unAuthTimes]
  IN [cache |-> g.cache,
      req |-> IF Blocked(unAuthTimes, max)
                THEN [r EXCEPT !.pc = "done", !.written = <<StatusUnauthorized>>,
                               !.ret = Nil]
                ELSE [r EXCEPT !.pc = "admitted"]]

\* A call that was just admitted calls next, and a call that has finished
\* returns, before anything else moves: these steps touch only the call's
\* own state.
Stepping == \E q \in Procs : req[q].pc \in {"admitted", "done"}

\* The keys of s with k, just used, put first.
Touch(s, k) == <<k>> \o SelectSeq(s, LAMBDA x : x # k)

\* The keys of s that are among keys.
Keep(s, keys) == SelectSeq(s, LAMBDA x : x \in keys)

\* A request arrives and is served by the first free goroutine.
\* recency lists the stored keys by their last use in ServeHTTP, a Get that
\* found a value or an Add, the last used first.
BeginRequest(p, addr) ==
  /\ phase = "serving"
  /\ ~Stepping
  /\ req[p].pc = "idle"
  /\ \A q \in Procs : q < p => req[q].pc # "idle"
  /\ LET a == Admission(lruCache, addr, maxUnAuthTimes, now)
         key == SplitHostPort(addr).host
     IN /\ lruCache' = a.cache
        /\ req' = [req EXCEPT ![p] = a.req]
        /\ recency' = IF Get(lruCache, key, now).ok THEN Touch(recency, key)
                                                    ELSE recency
  /\ served' = served + 1
  /\ UNCHANGED <<config, middleware, sink, now, adds, fails, clean, blockedAt>>

\* The requests of a run are MaxRequests at most.
Begin(p, addr) == served < MaxRequests /\ BeginRequest(p, addr)

\* Forward, with one wrapper kept for all calls instead of a new one for
\* each: it still holds the status of the last counted failure.
ForwardWithSharedWriter(p) ==
  /\ req[p].pc = "admitted"
  /\ req' = [req EXCEPT ![p].pc = "forwarding",
                        ![p].statusCode = IF sink.n > 0 THEN sink.last.statusCode
                                                        ELSE NewLoggingResponseWriter,
                        ![p].nextCalled = TRUE]
  /\ UNCHANGED <<config, middleware, lruCache, sink, now, history>>

\* An admitted call wraps the response writer and calls next with it.
Forward(p) ==
  /\ req[p].pc = "admitted"
  /\ req' = [req EXCEPT ![p].pc = "forwarding",
                        ![p].statusCode = NewLoggingResponseWriter,
                        ![p].nextCalled = TRUE]
  /\ UNCHANGED <<config, middleware, lruCache, sink, now, history>>

\* What a next handler may do with the wrapper: the codes it passes to
\* WriteHeader, in order.
HeaderCalls ==
  UNION {[1..n -> StatusCodes] : n \in 0..MaxWriteHeaderCalls}

RECURSIVE WriteHeaders(_, _)
WriteHeaders(r, calls) ==
  IF calls = <<>> THEN r ELSE WriteHeaders(WriteHeader(r, Head(calls)), Tail(calls))

\* next.ServeHTTP(lrw, r) on request r: the handler makes its WriteHeader
\* calls on the wrapper and returns an error or nil.
NextServeHTTP(r, calls, err) == [WriteHeaders(r, calls) EXCEPT !.err = err]

\* PostResponse, looking at the recorded status before the error.
PostResponseStatusFirst(r, c, out, t) ==
  IF r.statusCode \in {StatusUnauthorized, StatusForbidden}
    THEN [ret |-> r.err,
          cache |-> Add(c, r.ip, r.unAuthTimes + 1, t),
          sink |-> Write(out, Notification(r)),
          added |-> TRUE]
  ELSE [ret |-> r.err, cache |-> c, sink |-> out, added |-> FALSE]

\* PostResponse, counting 401 alone.
PostResponseOnly401(r, c, out, t) ==
  IF r.err # Nil
    THEN [ret |-> r.err, cache |-> c, sink |-> out, added |-> FALSE]
  ELSE IF r.statusCode = StatusUnauthorized
    THEN [ret |-> Nil,
          cache |-> Add(c, r.ip, r.unAuthTimes + 1, t),
          sink |-> Write(out, Notification(r)),
          added |-> TRUE]
  ELSE [ret |-> Nil, cache |-> c, sink |-> out, added |-> FALSE]

\* PostResponse, storing the count under the port instead of the host.
PostResponseKeyedByPort(r, c, out, t) ==
  IF r.err # Nil
    THEN [ret |-> r.err, cache |-> c, sink |-> out, added |-> FALSE]
  ELSE IF r.statusCode \in AuthFailure
    THEN [ret |-> Nil,
          cache |-> Add(c, r.port, r.unAuthTimes + 1, t),
          sink |-> Write(out, Notification(r)),
          added |-> TRUE]
  ELSE [ret |-> Nil, cache |-> c, sink |-> out, added |-> FALSE]

\* ServeHTTP after next has returned, for request r at time t: what it
\* returns, the cache and the sink it leaves, and whether it called Add.
PostResponse(r, c, out, t) ==
  IF r.err # Nil
    THEN [ret |-> r.err, cache |-> c, sink |-> out, added |-> FALSE]
  ELSE IF r.statusCode \in AuthFailure
    THEN [ret |-> Nil,
          cache |-> Add(c, r.ip, r.unAuthTimes + 1, t),
          sink |-> Write(out, Notification(r)),
          added |-> TRUE]
  ELSE [ret |-> Nil, cache |-> c, sink |-> out, added |-> FALSE]

\* The status the client was sent: the first one written.
SentFailure(r) == r.written # <<>> /\ Head(r.written) \in AuthFailure

\* The rest of an admitted call: next runs and returns, and ServeHTTP
\* looks at the error and the recorded status. Only the last part touches
\* what the calls share, so the whole is one step.
\* fails counts, per key, the requests the handler counted; clean[k] is
\* cleared once a request for k ended that the client saw fail and the
\* handler did not count (or the reverse), and once k's entry was evicted
\* or expired.
Complete(p, calls, err) ==
  /\ ~Stepping
  /\ req[p].pc = "forwarding"
  /\ LET r == NextServeHTTP(req[p], calls, err)
         k == r.ip
         post == PostResponse(r, lruCache, sink, now)
         evicted == StoredKeys(lruCache) \ StoredKeys(post.cache)
     IN /\ lruCache' = post.cache
        /\ sink' = post.sink
        /\ req' = [req EXCEPT ![p] = [r EXCEPT !.pc = "done", !.ret = post.ret]]
        /\ adds' = IF post.added THEN adds + 1 ELSE adds
        /\ fails' = IF post.added THEN [fails EXCEPT ![k] = @ + 1] ELSE fails
        /\ blockedAt' = IF post.added THEN [blockedAt EXCEPT ![k] = now]
                                      ELSE blockedAt
        /\ clean' = [x \in ClientKeys |->
                       /\ clean[x]
                       /\ x \notin evicted
                       /\ (x = k => (SentFailure(r) <=> post.added))]
        /\ recency' = IF post.added
                         THEN Keep(Touch(recency, k), StoredKeys(post.cache))
                         ELSE recency
  /\ UNCHANGED <<config, middleware, now, served>>

\* ServeHTTP has returned: the goroutine is free again.
Return(p) ==
  /\ req[p].pc = "done"
  /\ req' = [req EXCEPT ![p] = IdleReq]
  /\ UNCHANGED <<config, middleware, lruCache, sink, now, history>>

\* ------------------------------------------------------------ environment
\* A second passes.
Tick ==
  /\ phase = "serving"
  /\ ~Stepping
  /\ now < MaxTime
  /\ now' = now + 1
  /\ clean' = [x \in ClientKeys |->
                 clean[x] /\ ~\E e \in Stored(lruCache) :
                                  e.key = x /\ Expired(e, now + 1)]
  /\ UNCHANGED <<config, middleware, lruCache, req, sink, served, adds, fails,
                 blockedAt, recency>>

\* The cache's purging goroutine removes the expired entries.
DeleteExpired ==
  /\ phase = "serving"
  /\ ~Stepping
  /\ lruCache.purge
  /\ DeleteExpiredEntries(lruCache, now) # lruCache
  /\ lruCache' = DeleteExpiredEntries(lruCache, now)
  /\ recency' = Keep(recency, StoredKeys(DeleteExpiredEntries(lruCache, now)))
  /\ UNCHANGED <<config, middleware, req, sink, now, served, adds, fails, clean,
                 blockedAt>>

Errors == {Nil, TransportError}

Next ==
  \/ Provision
  \/ Validate
  \/ \E p \in Procs, addr \in RemoteAddrs : Begin(p, addr)
  \/ \E p \in Procs : Forward(p)
  \/ \E p \in Procs, calls \in HeaderCalls, err \in Errors : Complete(p, calls, err)
  \/ \E p \in Procs : Return(p)
  \/ Tick
  \/ DeleteExpired

Spec == Init /\ [][Next]_vars

\* Requests handled one after another: a call begins only when no other
\* call is in progress.
NoneInProgress == \A q \in Procs : req[q].pc = "idle"

NextSeq ==
  \/ Provision
  \/ Validate
  \/ \E p \in Procs, addr \in RemoteAddrs : NoneInProgress /\ Begin(p, addr)
  \/ \E p \in Procs : Forward(p)
  \/ \E p \in Procs, calls \in HeaderCalls, err \in Errors : Complete(p, calls, err)
  \/ \E p \in Procs : Return(p)
  \/ Tick
  \/ DeleteExpired

SpecSeq == Init /\ [][NextSeq]_vars

\* Provision on every combination of the input strings, followed by
\* requests handled one after another whose next handler sets no status or
\* 401 and returns no error.
InitConfig == InitOf(DurationInputs \X SizeInputs \X MaxInputs)

NextConfig ==
  \/ Provision
  \/ Validate
  \/ \E p \in Procs, addr \in RemoteAddrs : NoneInProgress /\ Begin(p, addr)
  \/ \E p \in Procs : Forward(p)
  \/ \E p \in Procs, calls \in {<<>>, <<StatusUnauthorized>>} : Complete(p, calls, Nil)
  \/ \E p \in Procs : Return(p)

SpecConfig == InitConfig /\ [][NextConfig]_vars

\* A cache of two entries and a threshold of 0 under requests of three
\* client keys, whose next handler sets no status or 401 and returns no
\* error.
ConfigsLRU == { << <<"1", "s">>, <<"2">>, <<"0">> >> }

InitLRU == InitOf(ConfigsLRU)

NextLRU ==
  \/ Provision
  \/ Validate
  \/ \E p \in Procs, addr \in RemoteAddrs :
        served < MaxLRURequests /\ BeginRequest(p, addr)
  \/ \E p \in Procs : Forward(p)
  \/ \E p \in Procs, calls \in {<<>>, <<StatusUnauthorized>>} : Complete(p, calls, Nil)
  \/ \E p \in Procs : Return(p)
  \/ Tick
  \/ DeleteExpired

SpecLRU == InitLRU /\ [][NextLRU]_vars

\* ------------------------------------------------------------ the claims
\* The call of p ended with the middleware's own 401: next was not called.
Rejected(r) ==
  /\ r.pc = "done"
  /\ ~r.nextCalled
  /\ r.written = <<401>>
  /\ r.ret = Nil

\* p's call begins in this step.
Begins(p) == req[p].pc = "idle" /\ req'[p].pc # "idle"

\* p's call, admitted before, ends in this step.
Completes(p) == req[p].pc = "forwarding" /\ req'[p].pc = "done"

\* The stored count of key k, 0 without an entry.
StoredCount(c, k) ==
  IF \E e \in Stored(c) : e.key = k
    THEN (CHOOSE e \in Stored(c) : e.key = k).value
    ELSE 0

\* C1: with requests handled one after another, and a key none of whose
\* requests was ambiguous or lost its entry (clean): the request that comes
\* after exactly max+1 counted failures of the key is answered 401 without
\* calling next, and the one that comes after max or fewer is admitted.
C1_BlockingActivation ==
  [][\A p \in Procs :
       (Begins(p) /\ clean[req'[p].ip]) =>
          /\ (fails[req'[p].ip] = maxUnAuthTimes + 1 => Rejected(req'[p]))
          /\ (fails[req'[p].ip] <= maxUnAuthTimes => req'[p].pc = "admitted")]_vars

C1_Witness ==
  \E p \in Procs :
    /\ Rejected(req[p])
    /\ clean[req[p].ip]
    /\ maxUnAuthTimes >= 1
    /\ fails[req[p].ip] = maxUnAuthTimes + 1

\* C2: every counted failure of a clean key raised its stored count by one:
\* the stored count is the number of failures counted.
C2_NoLostUpdates ==
  \A k \in ClientKeys :
    (clean[k] /\ k \in StoredKeys(lruCache)) => StoredCount(lruCache, k) = fails[k]

\* C3: a call that ends in rejection did not call next, wrote 401 and
\* nothing else to the response, returns nil, and leaves every stored count
\* and expiry, and the sink, as they were.
C3_RejectionShortCircuit ==
  [][\A p \in Procs :
       (Begins(p) /\ req'[p].pc = "done") =>
          /\ ~req'[p].nextCalled
          /\ req'[p].written = <<401>>
          /\ req'[p].ret = Nil
          /\ Stored(lruCache') = Stored(lruCache)
          /\ sink' = sink
          /\ adds' = adds]_vars

C3_Witness ==
  \E p \in Procs :
    /\ Rejected(req[p])
    /\ maxUnAuthTimes >= 0
    /\ StoredCount(lruCache, req[p].ip) > maxUnAuthTimes
    /\ now > blockedAt[req[p].ip]

\* C4: when next returns an error, ServeHTTP returns that error and leaves
\* every stored count and expiry, and the sink, as they were, whatever
\* status next had set.
C4_NoCountOnTransportError ==
  [][\A p \in Procs :
       (Completes(p) /\ req'[p].err # Nil) =>
          /\ req'[p].ret = req'[p].err
          /\ Stored(lruCache') = Stored(lruCache)
          /\ sink' = sink
          /\ adds' = adds]_vars

C4_Witness ==
  \E p \in Procs :
    /\ req[p].pc = "done"
    /\ req[p].nextCalled
    /\ req[p].err = TransportError
    /\ req[p].ret = TransportError
    /\ req[p].statusCode \in {401, 403}
    /\ req[p].ip \notin StoredKeys(lruCache)

C6_FreshClientAdmitted ==
  \A p \in Procs :
    (req[p].pc = "done" /\ req[p].unAuthTimes = 0) => req[p].nextCalled

\* C7: a call whose next returned no error sets the key's count to the
\* count it read plus one and writes one notification, with the status, the
\* host and the port, when the recorded status is 401 or 403, and otherwise
\* leaves the counts and the sink as they were; and every step writes as
\* many notifications as it writes counts.
C7_PostResponseUpdate ==
  [][/\ \A p \in Procs :
          (Completes(p) /\ req'[p].err = Nil) =>
             IF req'[p].statusCode \in {401, 403}
               THEN /\ StoredCount(lruCache', req[p].ip) = req[p].unAuthTimes + 1
                    /\ sink'.n = sink.n + 1
                    /\ sink'.last = [statusCode |-> req'[p].statusCode,
                                     ip |-> req[p].ip, port |-> req[p].port]
               ELSE /\ Stored(lruCache') = Stored(lruCache)
                    /\ sink' = sink
     /\ sink'.n - sink.n = adds' - adds]_vars

C7_Witness ==
  \E p \in Procs :
    /\ req[p].pc = "done"
    /\ req[p].err = Nil
    /\ req[p].statusCode = 403
    /\ req[p].unAuthTimes = 1
    /\ StoredCount(lruCache, req[p].ip) = 2
    /\ sink.n = 2
    /\ sink.last = [statusCode |-> 403, ip |-> req[p].ip, port |-> req[p].port]

\* C8: the status the wrapper has recorded is the code of the first
\* WriteHeader call next made.
C8_FirstStatusCaptured ==
  \A p \in Procs :
    (req[p].pc = "done" /\ req[p].nextCalled /\ req[p].written # <<>>) =>
       req[p].statusCode = Head(req[p].written)

\* C9: Provision returns nil only for a capacity > 0, a duration > 0 and a
\* threshold >= 0.
C9_RejectsNonPositiveBounds ==
  (phase # "new" /\ provisionErr = NoError) =>
     /\ Atoi(CacheSize).val > 0
     /\ ParseDuration(BlockDuration).val > 0
     /\ Atoi(MaxUnAuthTimes).val >= 0

\* C10: Provision returns nil exactly when the three fields parse;
\* otherwise its error names a field that does not parse, with its raw
\* value, the writer stays unset, Validate fails, and no request is served.
Malformed ==
  {e \in {ConfigError("block_duration", BlockDuration),
          ConfigError("cache_size", CacheSize),
          ConfigError("max_unauth_times", MaxUnAuthTimes)} :
     \/ e.field = "block_duration" /\ ~ParseDuration(BlockDuration).ok
     \/ e.field = "cache_size" /\ ~Atoi(CacheSize).ok
     \/ e.field = "max_unauth_times" /\ ~Atoi(MaxUnAuthTimes).ok}

C10_MalformedConfigFails ==
  phase # "new" =>
     /\ provisionErr = NoError <=> Malformed = {}
     /\ Malformed # {} =>
          /\ provisionErr \in Malformed
          /\ w = Nil
          /\ ValidateResult(w) # Nil
          /\ phase \in {"provisioned", "failed"}
          /\ phase = "failed" => validateErr # Nil
          /\ served = 0
          /\ \A p \in Procs : req[p].pc = "idle"

C10_Witness ==
  /\ phase = "failed"
  /\ provisionErr = ConfigError("max_unauth_times", MaxUnAuthTimes)
  /\ ~lruCache.nil
  /\ validateErr = "no writer"

\* C11: a cache that holds entries holds at most cache_size of them, and at
\* most one for a key.
C11_CapacityBound ==
  lruCache.evictList # <<>> =>
     /\ Len(lruCache.evictList) <= Atoi(CacheSize).val
     /\ \A i, j \in 1..Len(lruCache.evictList) :
          lruCache.evictList[i].key = lruCache.evictList[j].key => i = j

\* C12: a counter write removes an entry only when it inserts a new key
\* into a full cache, and the entry it removes is then the one whose last
\* use, a Get that found it or an Add, is the oldest; a request for a key
\* that was counted before and has no entry any more reads 0 and is
\* admitted.
C12_LRUEviction ==
  [][\A p \in Procs :
       /\ Completes(p) =>
            LET removed == StoredKeys(lruCache) \ StoredKeys(lruCache')
                inserts == /\ adds' = adds + 1
                           /\ req[p].ip \notin StoredKeys(lruCache)
                full == lruCache.size > 0 /\ Len(lruCache.evictList) = lruCache.size
            IN IF inserts /\ full
                 THEN removed = {recency[Len(recency)]}
                 ELSE removed = {}
       /\ (/\ Begins(p)
           /\ fails[req'[p].ip] > 0
           /\ req'[p].ip \notin StoredKeys(lruCache)) =>
            /\ req'[p].unAuthTimes = 0
            /\ req'[p].pc = "admitted"]_vars

\* A request for b is admitted after b, counted later than a, was removed
\* from the full cache (nothing has expired): the Get of a rejected
\* request for a had made a the more recently used of the two.
C12_Witness ==
  \E p \in Procs :
    /\ req[p].pc = "admitted"
    /\ req[p].ip = <<"b">>
    /\ fails[<<"b">>] > maxUnAuthTimes
    /\ <<"b">> \notin StoredKeys(lruCache)
    /\ <<"a">> \in StoredKeys(lruCache)
    /\ blockedAt[<<"a">>] < blockedAt[<<"b">>]
    /\ now <= blockedAt[<<"a">>] + blockDuration
    /\ fails[<<"a">>] = 1

\* The steps a call takes: idle is before and after the call, admitted is
\* ADMITTED, forwarding is FORWARDING, and done is a terminal state.
Paths ==
  { <<"idle", "admitted">>, <<"idle", "done">>, <<"admitted", "forwarding">>,
    <<"forwarding", "done">>, <<"done", "idle">> }

\* The terminal state of a call that has ended.
Terminal(r) ==
  IF ~r.nextCalled THEN "REJECTED"
  ELSE IF r.ret # Nil THEN "propagated-error"
  ELSE IF r.statusCode \in {401, 403} THEN "UPDATED"
  ELSE "SKIPPED"

\* C13: a call moves along read -> REJECTED or read -> ADMITTED ->
\* FORWARDING -> terminal only; it is rejected exactly when the count it
\* read exceeds the threshold, and then without calling next; the count it
\* read is fixed at its first step and the cache is not read again; the
\* counter is written in the step in which next returns, once, exactly by
\* the calls that end UPDATED, so a call whose next has not returned has
\* written nothing; a call with an error from next returns that error.
C13_RequestStateMachine ==
  [][/\ \A p \in Procs :
          /\ req'[p].pc # req[p].pc => <<req[p].pc, req'[p].pc>> \in Paths
          /\ Begins(p) =>
               /\ req'[p].pc = "done" <=> req'[p].unAuthTimes > maxUnAuthTimes
               /\ req'[p].pc = "done" => Terminal(req'[p]) = "REJECTED"
               /\ req'[p].pc = "admitted" => req'[p].written = <<>>
               /\ adds' = adds
          /\ (req[p].pc # "idle" /\ req'[p].pc # "idle") =>
               req'[p].unAuthTimes = req[p].unAuthTimes
          /\ Completes(p) =>
               /\ Terminal(req'[p]) # "REJECTED"
               /\ Terminal(req'[p]) = "propagated-error" <=> req'[p].err # Nil
               /\ req'[p].ret = req'[p].err
               /\ adds' = IF Terminal(req'[p]) = "UPDATED" THEN adds + 1 ELSE adds
               /\ Terminal(req'[p]) # "UPDATED" => lruCache' = lruCache
          /\ (req[p].pc = "forwarding" /\ req'[p].pc = "forwarding") =>
               fails'[req[p].ip] = fails[req[p].ip] \/ \E q \in Procs : Completes(q)
     /\ adds' # adds => \E p \in Procs : Completes(p)
     /\ lruCache' # lruCache =>
          \/ \E p \in Procs : Begins(p) /\ Stored(lruCache') = Stored(lruCache)
          \/ \E p \in Procs : Completes(p)
          \/ /\ Stored(lruCache') \subseteq Stored(lruCache)
             /\ req' = req]_vars

\* A call ended UPDATED and wrote the counter while an earlier call for the
\* same key, whose next has not returned, has written nothing.
C13_Witness ==
  \E p, q \in Procs :
    /\ req[p].pc = "forwarding"
    /\ req[q].pc = "done"
    /\ Terminal(req[q]) = "UPDATED"
    /\ req[q].ip = req[p].ip
    /\ fails[req[p].ip] = 1
    /\ adds = 1
    /\ StoredCount(lruCache, req[p].ip) = 1

\* The last element of a non-empty sequence.
Last(s) == s[Len(s)]

\* C14: a call that is forwarded starts with the recorded status 200; when
\* next returns no error and has made no WriteHeader call the recorded
\* status is 200 and the cache and the sink stay as they were (SKIPPED);
\* the recorded status comes from the call's own WriteHeader calls alone,
\* and no step of another call changes it.
C14_DefaultStatus ==
  [][\A p \in Procs :
       /\ (req[p].pc = "admitted" /\ req'[p].pc = "forwarding") =>
            req'[p].statusCode = 200
       /\ Completes(p) =>
            req'[p].statusCode = IF req'[p].written = <<>> THEN 200
                                                           ELSE Last(req'[p].written)
       /\ (Completes(p) /\ req'[p].err = Nil /\ req'[p].written = <<>>) =>
            /\ Terminal(req'[p]) = "SKIPPED"
            /\ lruCache' = lruCache
            /\ sink' = sink
            /\ adds' = adds
       /\ (req'[p].statusCode # req[p].statusCode) =>
            \/ req[p].pc = "admitted" /\ req'[p].pc = "forwarding"
            \/ Completes(p)
            \/ req[p].pc = "done" /\ req'[p] = IdleReq]_vars

\* A call ends SKIPPED, next having made no WriteHeader call, right after
\* another call recorded 401 and was counted, and while one for the same
\* key that began before it is still inside next.
C14_Witness ==
  \E p, q \in Procs :
    /\ p # q
    /\ req[p].pc = "done"
    /\ req[p].nextCalled
    /\ req[p].written = <<>>
    /\ req[p].err = Nil
    /\ req[p].statusCode = 200
    /\ req[q].pc = "forwarding"
    /\ req[q].ip = req[p].ip
    /\ sink.n = 1
    /\ sink.last.statusCode = 401
    /\ sink.last.ip = req[p].ip
    /\ StoredCount(lruCache, req[p].ip) = 1

\* C15: a request whose address does not split is served like any other,
\* with the empty host as its key: it reads the count stored for that key,
\* and it is rejected once max+1 failures of such requests were counted,
\* the key's entry neither expired nor evicted (clean).
C15_UnparsedAddressKey ==
  [][\A p \in Procs :
       (Begins(p) /\ ~SplitHostPort(req'[p].RemoteAddr).ok) =>
          /\ req'[p].ip = <<>>
          /\ req'[p].pc \in {"admitted", "done"}
          /\ req'[p].unAuthTimes = Get(lruCache, <<>>, now).value
          /\ (fails[<<>>] >= maxUnAuthTimes + 1 /\ clean[<<>>]) =>
               Rejected(req'[p])]_vars

\* C16: with a threshold >= 0, every stored count is at least 1 and at
\* most max+1, and every call that was admitted read a count of at most max.
C16_CountBounds ==
  maxUnAuthTimes >= 0 =>
     /\ \A e \in Stored(lruCache) : 1 <= e.value /\ e.value <= maxUnAuthTimes + 1
     /\ \A p \in Procs :
          req[p].pc \in {"admitted", "forwarding"} =>
             0 <= req[p].unAuthTimes /\ req[p].unAuthTimes <= maxUnAuthTimes

\* The live count of a key is max+1 while a call for the key that read max
\* is still inside next.
C16_Witness ==
  \E p \in Procs :
    /\ maxUnAuthTimes = 1
    /\ req[p].pc = "forwarding"
    /\ req[p].unAuthTimes = maxUnAuthTimes
    /\ StoredCount(lruCache, req[p].ip) = maxUnAuthTimes + 1
    /\ \E e \in Stored(lruCache) : e.key = req[p].ip /\ ~Expired(e, now)

\* The live entry of key k at time t in cache c, as a set: empty when k has
\* no entry or an expired one.
Live(c, k, t) == {e \in Stored(c) : e.key = k /\ ~Expired(e, t)}

\* C17: the count of a key whose entry is live, and stays stored, does not
\* decrease in any step; and a request that finds a live count above the
\* threshold is rejected.
C17_BlockStickiness ==
  [][/\ \A k \in ClientKeys :
          \A e \in Live(lruCache, k, now) :
             k \in StoredKeys(lruCache') => StoredCount(lruCache', k) >= e.value
     /\ \A p \in Procs :
          (/\ Begins(p)
           /\ \E e \in Live(lruCache, req'[p].ip, now) : e.value > maxUnAuthTimes) =>
             Rejected(req'[p])]_vars

\* C18: a step of a call for key A leaves every entry of another key with
\* its count and its expiry, or removes it; and it removes one only when
\* it writes the counter of A, A has no entry and the cache is full.
C18_CrossKeyIsolation ==
  [][\A p \in Procs :
       (Begins(p) \/ Completes(p)) =>
          LET A == IF Begins(p) THEN req'[p].ip ELSE req[p].ip
          IN \A e \in Stored(lruCache) \cup Stored(lruCache') :
               e.key # A =>
                 \/ e \in Stored(lruCache) /\ e \in Stored(lruCache')
                 \/ /\ e \in Stored(lruCache)
                    /\ e.key \notin StoredKeys(lruCache')
                    /\ Completes(p)
                    /\ adds' = adds + 1
                    /\ A \notin StoredKeys(lruCache)
                    /\ lruCache.size > 0
                    /\ Len(lruCache.evictList) = lruCache.size]_vars

\* The counter write of a call for key A has just removed the unexpired
\* entry of key B from the full cache and left the entry of key C, written
\* before, with its count and expiry.
C18_Witness ==
  \E p \in Procs :
    /\ req[p].pc = "done"
    /\ Terminal(req[p]) = "UPDATED"
    /\ blockDuration > 0
    /\ StoredCount(lruCache, req[p].ip) = 1
    /\ \E B, C \in ClientKeys \ {req[p].ip} :
         /\ B # C
         /\ fails[B] > 0
         /\ B \notin StoredKeys(lruCache)
         /\ now <= blockedAt[B] + blockDuration
         /\ \E e \in Stored(lruCache) :
              /\ e.key = C
              /\ e.value = fails[C]
              /\ e.expiresAt = blockedAt[C] + blockDuration
              /\ blockedAt[C] < now

====
